---- MODULE Spec2Model ----
(***************************************************************************)
(* Plex.sort (plex_sort.py): the interactive run of __main__ and the       *)
(* function sort_playlist, against a Plex server holding playlists.        *)
(*                                                                         *)
(* Field values of playlist entries (titles, artist names, years,          *)
(* durations) are modelled by their rank in the order Python compares      *)
(* them: 1 stands for "A", 2 for "B", 3 for "C", and Null for None.        *)
(***************************************************************************)
EXTENDS Integers, Sequences, FiniteSets, TLC

\* ------------------------------------------------------------------ bounds
MaxEntries == 3      \* entries of the playlist on the server
MaxRuns == 2         \* iterations of the while loop of __main__
MaxMenuInput == 8    \* inputs at the key menu spell -MaxMenuInput..MaxMenuInput
MaxDirInput == 3     \* inputs at the direction menu spell -MaxDirInput..MaxDirInput

\* ------------------------------------------------------------ data model
Null == 0            \* None

None == 0            \* "no entry": after=None, and "no playlist"

TitleOf == <<2, 1, 3, 1>>              \* B, A, C, A
OriginalTitleOf == <<Null, 2, 1, Null>>
GrandparentTitleOf == <<1, 1, 2, 2>>
YearOf == <<2, Null, 1, 3>>             \* entry 2 has no year
DurationOf == <<3, 2, 2, 1>>

Wrap(tbl, k) == tbl[((k - 1) % Len(tbl)) + 1]

\* The entry with identity k, as playlist.items() exposes it.
Entry(k) ==
  [id |-> k,
   title |-> Wrap(TitleOf, k),
   titleSort |-> Wrap(TitleOf, k),
   originalTitle |-> Wrap(OriginalTitleOf, k),
   grandparentTitle |-> Wrap(GrandparentTitleOf, k),
   parentTitle |-> Wrap(GrandparentTitleOf, k),
   year |-> Wrap(YearOf, k),
   duration |-> Wrap(DurationOf, k)]

EntryIds == 1..MaxEntries

PlaylistTypes == {"audio", "video", "photo"}

Range(s) == {s[i] : i \in 1..Len(s)}

\* Sequences over S without repetition, of length at most n.
RECURSIVE DistinctSeqs(_, _)
DistinctSeqs(S, n) ==
  IF n = 0 THEN {<<>>}
  ELSE LET shorter == DistinctSeqs(S, n - 1)
       IN shorter \cup UNION {{Append(s, x) : x \in S \ Range(s)} : s \in shorter}

\* All orderings of the elements of a sequence of distinct elements.
Orderings(s) == {t \in DistinctSeqs(Range(s), Len(s)) : Len(t) = Len(s)}

\* getattr(x, key)
Getattr(x, key) == Entry(x)[key]

\* ------------------------------------------------- choose_sorting_method
\* The menu of sort keys; a key the entry lacks is dict.get's default.
NoKey == "-"

Choice(name, key, backup_key, secondary_key, secondary_backup_key) ==
  [name |-> name, key |-> key, backup_key |-> backup_key,
   secondary_key |-> secondary_key, secondary_backup_key |-> secondary_backup_key]

choices(playlist_type) ==
  <<Choice("Title", "title", NoKey, "originalTitle", "grandparentTitle"),
    Choice("Sorting title", "titleSort", NoKey, "originalTitle", "grandparentTitle")>>
  \o (IF playlist_type = "audio"
      THEN <<Choice("Artist name", "originalTitle", "grandparentTitle", "title", NoKey),
             Choice("Album artist name", "grandparentTitle", NoKey, "title", NoKey),
             Choice("Album name", "parentTitle", NoKey, "originalTitle", "grandparentTitle")>>
      ELSE IF playlist_type = "video"
      THEN <<Choice("Release year", "year", NoKey, "title", NoKey)>>
      ELSE <<>>)
  \o <<Choice("Duration", "duration", NoKey, "title", NoKey),
       Choice("Shuffle randomly", "shuffle", NoKey, NoKey, NoKey)>>

sorting_choices ==
  <<[name |-> "Sort ascending", reverse |-> FALSE],
    [name |-> "Sort descending", reverse |-> TRUE]>>

\* selected_choice.get(field, selected_choice["key"])
Get(choice, field) == IF choice[field] = NoKey THEN choice.key ELSE choice[field]

\* What the user may type at the key menu and at the direction menu.
MenuInputs == {"", "abc"} \cup {ToString(i) : i \in (-MaxMenuInput)..MaxMenuInput}

DirInputs == {"", "abc"} \cup {ToString(i) : i \in (-MaxDirInput)..MaxDirInput}

\* int(s): the integer s spells, or ValueError.
IsInt(s) == \E i \in (-MaxMenuInput)..MaxMenuInput : ToString(i) = s

int(s) == CHOOSE i \in (-MaxMenuInput)..MaxMenuInput : ToString(i) = s

\* seq[i] of a Python list (0-based): IndexError unless -len <= i < len; a
\* negative i counts from the end.
HasIndex(seq, i) == (-Len(seq)) <= i /\ i < Len(seq)

Index(seq, i) == IF i < 0 THEN Len(seq) + i + 1 ELSE i + 1

\* What the user may type at a yes/no prompt, and str.lower().
YesNoInputs == {"", "y", "Y", "n", "N", "x"}

Lower(s) == IF s = "Y" THEN "y" ELSE IF s = "N" THEN "n" ELSE s

\* --------------------------------------------------------- sort_playlist
\* The comparison value of the key lambda.
Value(x, sort_key, backup_sort_key) ==
  IF Getattr(x, sort_key) # Null THEN Getattr(x, sort_key)
  ELSE Getattr(x, backup_sort_key)

\* Where sorted() puts x in the already sorted acc: behind every entry that
\* does not have to follow it (the sort is stable, also with reverse=True).
InsertStable(acc, x, sort_key, backup_sort_key, reverse) ==
  LET v == Value(x, sort_key, backup_sort_key)
      stay == {i \in 1..Len(acc) :
                 IF reverse THEN Value(acc[i], sort_key, backup_sort_key) >= v
                 ELSE Value(acc[i], sort_key, backup_sort_key) <= v}
      c == Cardinality(stay)
  IN SubSeq(acc, 1, c) \o <<x>> \o SubSeq(acc, c + 1, Len(acc))

RECURSIVE SortedPrefix(_, _, _, _, _)
SortedPrefix(items, n, sort_key, backup_sort_key, reverse) ==
  IF n = 0 THEN <<>>
  ELSE InsertStable(SortedPrefix(items, n - 1, sort_key, backup_sort_key, reverse),
                    items[n], sort_key, backup_sort_key, reverse)

\* sorted(items, key=..., reverse=...): a new list; items is left as it is.
Sorted(items, sort_key, backup_sort_key, reverse) ==
  SortedPrefix(items, Len(items), sort_key, backup_sort_key, reverse)

\* sorted() raises TypeError when it compares None: with two or more entries
\* every entry is compared at least once.
SortRaises(items, sort_key, backup_sort_key) ==
  /\ Len(items) >= 2
  /\ \E i \in 1..Len(items) : Value(items[i], sort_key, backup_sort_key) = Null

\* A draw with replacement, random.choices(items, k=len(items)), in its place.
ShuffleWithReplacement(items) == [1..Len(items) -> Range(items)]

\* random.shuffle(items): any ordering of the same entries.
Shuffle(items) == Orderings(items)

\* playlist.moveItem(item, after): the server takes item out of the playlist
\* and puts it back right behind after, or in front when after is None.
Without(seq, x) == SelectSeq(seq, LAMBDA y : y # x)

PositionOf(seq, x) == CHOOSE i \in 1..Len(seq) : seq[i] = x

MoveItem(seq, item, after) ==
  LET rest == Without(seq, item)
  IN IF after = None THEN <<item>> \o rest
     ELSE LET p == PositionOf(rest, after)
          IN SubSeq(rest, 1, p) \o <<item>> \o SubSeq(rest, p + 1, Len(rest))

\* The anchor never advanced: previous_item stays what it was.
NextPreviousStale(item, previous_item) == previous_item

\* line 394: the anchor of the next move.
NextPrevious(item, previous_item) == item

\* The loop walking items from the back: for item in reversed(items).
LoopItemReversed(items, idx) == items[Len(items) - idx + 1]

\* line 392: the entry the idx-th round of the loop moves.
LoopItem(items, idx) == items[idx]

\* The branches swapped: if not duplicate.
CreatesCopyInverted(duplicate) == ~duplicate

\* line 377: whether a copy is created instead of moving the entries.
CreatesCopy(duplicate) == duplicate

\* ------------------------------------------------------------------ state
VARIABLES
  playlists,          \* the server: a sequence of playlists
  caller,             \* "main": the run of __main__; "direct": a call of sort_playlist
  pc,                 \* where the run is
  runs,               \* iterations of the loop of __main__ begun
  playlist,           \* the playlist at hand (its position on the server)
  method,             \* choose_sorting_method: the last input at the key menu
  sorting_method,     \* choose_sorting_method: the last input at the direction menu
  ret,                \* choose_sorting_method: the tuple returned
  args,               \* sort_playlist's arguments
  orig,               \* the server's playlists when sort_playlist fetched the items
  items,              \* sort_playlist: the local list
  pass1,              \* the value of the first sorted(...) expression
  pass2,              \* the value of the second sorted(...) expression
  previous_item,      \* sort_playlist: the anchor
  idx,                \* sort_playlist: the round of the for loop
  moveLog,            \* the moveItem commands issued by this call
  createLog,          \* the Playlist.create commands issued by this call
  printed,            \* the success message printed by this call
  returned,           \* the playlist this call returned
  error               \* the exception that ended the run

vars == <<playlists, caller, pc, runs, playlist, method, sorting_method, ret, args,
          orig, items, pass1, pass2, previous_item, idx, moveLog, createLog,
          printed, returned, error>>

prompt == <<method, sorting_method, ret>>

call == <<orig, items, pass1, pass2, previous_item, idx, moveLog, createLog,
          printed, returned>>

NoInput == "?"

NoArgs == [sort_key |-> NoKey, backup_sort_key |-> NoKey, secondary_sort_key |-> NoKey,
           backup_secondary_sort_key |-> NoKey, sort_reverse |-> FALSE,
           duplicate |-> FALSE]

\* The locals of one iteration, before it assigns them.
FreshPrompt == method = NoInput /\ sorting_method = NoInput /\ ret = <<>>

FreshCall ==
  /\ orig = <<>> /\ items = <<>> /\ pass1 = <<>> /\ pass2 = <<>>
  /\ previous_item = None /\ idx = 0 /\ moveLog = <<>> /\ createLog = <<>>
  /\ printed = FALSE /\ returned = None

\* The server when the program starts: one playlist that is not smart, with
\* up to MaxEntries entries. A call of sort_playlist finds them in any order;
\* the interactive run finds them in the order 1, 2, ...
Playlist(t, s) ==
  [title |-> "P", summary |-> "S", playlistType |-> t, smart |-> FALSE, items |-> s]

InitialItems(c) ==
  IF c = "direct" THEN DistinctSeqs(EntryIds, MaxEntries)
  ELSE {[i \in 1..n |-> i] : n \in 0..MaxEntries}

Init ==
  /\ caller \in {"main", "direct"}
  /\ playlists \in {<<Playlist(t, s)>> : t \in PlaylistTypes, s \in InitialItems(caller)}
  /\ pc = IF caller = "main" THEN "choose_playlist" ELSE "call"
  /\ runs = IF caller = "main" THEN 1 ELSE 0
  /\ playlist = None
  /\ args = NoArgs
  /\ error = "none"
  /\ FreshPrompt
  /\ FreshCall

\* get_playlists(server): positions of the playlists that are not smart.
get_playlists == {i \in 1..Len(playlists) : ~playlists[i].smart}

\* ---------------------------------------------------------------- __main__
\* lines 416-417: choose("Select a playlist to sort", playlists, "title")
ChoosePlaylist ==
  /\ pc = "choose_playlist"
  /\ \E i \in get_playlists : playlist' = i
  /\ pc' = "key_prompt"
  /\ UNCHANGED <<playlists, caller, runs, args, error, prompt, call>>

\* choose_sorting_method, lines 112-174: the menu for the playlist at hand.
menu == choices(playlists[playlist].playlistType)

\* line 184: choices[int(method)], once the loop of lines 181-187 has ended.
selected_choice == menu[Index(menu, int(method))]

\* lines 181-190: one round of the key prompt; a ValueError or IndexError
\* prompts again, and "shuffle" returns at once.
KeyPrompt ==
  /\ pc = "key_prompt"
  /\ \E inp \in MenuInputs :
       /\ method' = inp
       /\ IF IsInt(inp) /\ HasIndex(menu, int(inp))
          THEN LET selected == menu[Index(menu, int(inp))]
               IN IF selected.key = "shuffle"
                  THEN /\ ret' = <<selected.key, selected.key, FALSE>>
                       /\ pc' = "unpack"
                  ELSE /\ pc' = "dir_prompt"
                       /\ UNCHANGED ret
          ELSE UNCHANGED <<pc, ret>>
  /\ UNCHANGED <<playlists, caller, runs, playlist, sorting_method, args, error, call>>

\* lines 208-222: one round of the direction prompt, and the return.
DirPrompt ==
  /\ pc = "dir_prompt"
  /\ \E inp \in DirInputs :
       /\ sorting_method' = inp
       /\ IF IsInt(inp) /\ HasIndex(sorting_choices, int(inp))
          THEN LET selected_sorting_choice ==
                     sorting_choices[Index(sorting_choices, int(inp))]
               IN /\ ret' = <<selected_choice.key,
                              Get(selected_choice, "backup_key"),
                              Get(selected_choice, "secondary_key"),
                              Get(selected_choice, "secondary_backup_key"),
                              selected_sorting_choice.reverse>>
                  /\ pc' = "unpack"
          ELSE UNCHANGED <<pc, ret>>
  /\ UNCHANGED <<playlists, caller, runs, playlist, method, args, error, call>>

\* line 420: the tuple is unpacked into five names.
Unpack ==
  /\ pc = "unpack"
  /\ Len(ret) = 5
  /\ args' = [sort_key |-> ret[1], backup_sort_key |-> ret[2],
              secondary_sort_key |-> ret[3], backup_secondary_sort_key |-> ret[4],
              sort_reverse |-> ret[5], duplicate |-> FALSE]
  /\ method' = NoInput /\ sorting_method' = NoInput /\ ret' = <<>>
  /\ pc' = "dup_prompt"
  /\ UNCHANGED <<playlists, caller, runs, playlist, error, call>>

\* line 420: "not enough values to unpack (expected 5, got 3)".
UnpackFails ==
  /\ pc = "unpack"
  /\ Len(ret) # 5
  /\ error' = "ValueError"
  /\ pc' = "crashed"
  /\ UNCHANGED <<playlists, caller, runs, playlist, args, prompt, call>>

\* lines 93-99 and 425: choose_duplication; any other input prompts again.
ChooseDuplication ==
  /\ pc = "dup_prompt"
  /\ \E inp \in YesNoInputs :
       IF Lower(inp) = "y"
       THEN args' = [args EXCEPT !.duplicate = TRUE] /\ pc' = "sort"
       ELSE IF inp = "" \/ Lower(inp) = "n"
       THEN args' = [args EXCEPT !.duplicate = FALSE] /\ pc' = "sort"
       ELSE UNCHANGED <<args, pc>>
  /\ UNCHANGED <<playlists, caller, runs, playlist, error, prompt, call>>

\* A call of sort_playlist(server, playlist, ...) with the keys of a menu entry.
DirectCall ==
  /\ pc = "call"
  /\ \E i \in get_playlists, r \in BOOLEAN, d \in BOOLEAN :
       \E n \in 1..Len(choices(playlists[i].playlistType)) :
         LET c == choices(playlists[i].playlistType)[n]
         IN /\ c.key = "shuffle" => ~r
            /\ playlist' = i
            /\ args' = [sort_key |-> c.key,
                        backup_sort_key |-> Get(c, "backup_key"),
                        secondary_sort_key |-> Get(c, "secondary_key"),
                        backup_secondary_sort_key |-> Get(c, "secondary_backup_key"),
                        sort_reverse |-> r, duplicate |-> d]
  /\ pc' = "sort"
  /\ UNCHANGED <<playlists, caller, runs, error, prompt, call>>

\* --------------------------------------------------- sort_playlist, steps
source == playlists[playlist]

secondary_pass == args.secondary_sort_key # "" /\ source.playlistType = "audio"

\* lines 355-357: the items are fetched and shuffled in place.
ShuffleItems ==
  /\ pc = "sort"
  /\ args.sort_key = "shuffle"
  /\ orig' = playlists
  /\ items' \in Shuffle(source.items)
  /\ pc' = "apply"
  /\ UNCHANGED <<playlists, caller, runs, playlist, args, error, prompt, pass1, pass2,
                 previous_item, idx, moveLog, createLog, printed, returned>>

\* lines 355-372: the items are fetched; sorted(...) is evaluated once, and
\* once more for an audio playlist. Each is an expression statement: its
\* value is bound to no name, and items stays as fetched.
SortItems ==
  /\ pc = "sort"
  /\ args.sort_key # "shuffle"
  /\ ~SortRaises(source.items, args.sort_key, args.backup_sort_key)
  /\ secondary_pass =>
       ~SortRaises(source.items, args.secondary_sort_key, args.backup_secondary_sort_key)
  /\ orig' = playlists
  /\ items' = source.items
  /\ pass1' = Sorted(source.items, args.sort_key, args.backup_sort_key, args.sort_reverse)
  /\ pass2' = IF secondary_pass
              THEN Sorted(items', args.secondary_sort_key, args.backup_secondary_sort_key,
                          args.sort_reverse)
              ELSE <<>>
  /\ pc' = "apply"
  /\ UNCHANGED <<playlists, caller, runs, playlist, args, error, prompt,
                 previous_item, idx, moveLog, createLog, printed, returned>>

\* lines 359-372: a comparison with None raises TypeError, which nothing catches.
SortFails ==
  /\ pc = "sort"
  /\ args.sort_key # "shuffle"
  /\ \/ SortRaises(source.items, args.sort_key, args.backup_sort_key)
     \/ /\ secondary_pass
        /\ SortRaises(source.items, args.secondary_sort_key, args.backup_secondary_sort_key)
  /\ orig' = playlists
  /\ items' = source.items
  /\ error' = "TypeError"
  /\ pc' = "crashed"
  /\ UNCHANGED <<playlists, caller, runs, playlist, args, prompt, pass1, pass2,
                 previous_item, idx, moveLog, createLog, printed, returned>>

\* Where a call that returns goes on: line 439 of __main__, or the caller.
ReturnPC == IF caller = "main" THEN "continue_prompt" ELSE "done"

\* lines 378-384: the create command of the copy.
CreateCommand ==
  [title |-> "Copy of " \o source.title, summary |-> source.summary,
   items |-> items, playlistType |-> source.playlistType]

\* lines 377-387: the copy is created, reported and returned.
Create ==
  /\ pc = "apply"
  /\ CreatesCopy(args.duplicate)
  /\ createLog' = Append(createLog, CreateCommand)
  /\ playlists' = Append(playlists, [title |-> CreateCommand.title,
                                     summary |-> CreateCommand.summary,
                                     playlistType |-> CreateCommand.playlistType,
                                     smart |-> FALSE,
                                     items |-> CreateCommand.items])
  /\ printed' = TRUE
  /\ returned' = Len(playlists')
  /\ pc' = ReturnPC
  /\ UNCHANGED <<caller, runs, playlist, args, error, prompt, orig, items, pass1, pass2,
                 previous_item, idx, moveLog>>

\* lines 378-384: Playlist.create raises, which nothing catches.
CreateFails ==
  /\ pc = "apply"
  /\ CreatesCopy(args.duplicate)
  /\ createLog' = Append(createLog, CreateCommand)
  /\ error' = "PlexApiException"
  /\ pc' = "crashed"
  /\ UNCHANGED <<playlists, caller, runs, playlist, args, prompt, orig, items, pass1, pass2,
                 previous_item, idx, moveLog, printed, returned>>

\* lines 392-394: one round of the for loop.
MoveItemStep ==
  /\ pc = "apply"
  /\ ~CreatesCopy(args.duplicate)
  /\ idx < Len(items)
  /\ LET item == LoopItem(items, idx + 1)
     IN /\ moveLog' = Append(moveLog, [item |-> item, after |-> previous_item])
        /\ playlists' = [playlists EXCEPT
                           ![playlist].items = MoveItem(@, item, previous_item)]
        /\ previous_item' = NextPrevious(item, previous_item)
  /\ idx' = idx + 1
  /\ UNCHANGED <<caller, pc, runs, playlist, args, error, prompt, orig, items, pass1, pass2,
                 createLog, printed, returned>>

\* The failure caught and passed over (try: ... except Exception: pass): the
\* loop goes on with the next entry.
MoveItemFailsSwallowed ==
  /\ pc = "apply"
  /\ ~CreatesCopy(args.duplicate)
  /\ idx < Len(items)
  /\ moveLog' = Append(moveLog, [item |-> LoopItem(items, idx + 1), after |-> previous_item])
  /\ previous_item' = NextPrevious(LoopItem(items, idx + 1), previous_item)
  /\ idx' = idx + 1
  /\ error' = "PlexApiException"
  /\ UNCHANGED <<playlists, caller, pc, runs, playlist, args, prompt, orig, items, pass1,
                 pass2, createLog, printed, returned>>

\* line 393: playlist.moveItem raises, which nothing catches: the loop and
\* the run end there, and the server keeps the moves made so far.
MoveItemFails ==
  /\ pc = "apply"
  /\ ~CreatesCopy(args.duplicate)
  /\ idx < Len(items)
  /\ moveLog' = Append(moveLog, [item |-> LoopItem(items, idx + 1), after |-> previous_item])
  /\ error' = "PlexApiException"
  /\ pc' = "crashed"
  /\ UNCHANGED <<playlists, caller, runs, playlist, args, prompt, orig, items, pass1, pass2,
                 previous_item, idx, createLog, printed, returned>>

\* lines 396-397: after the loop the success is reported, the playlist returned.
FinishMoves ==
  /\ pc = "apply"
  /\ ~CreatesCopy(args.duplicate)
  /\ idx = Len(items)
  /\ printed' = TRUE
  /\ returned' = playlist
  /\ pc' = ReturnPC
  /\ UNCHANGED <<playlists, caller, runs, playlist, args, error, prompt, orig, items,
                 pass1, pass2, previous_item, idx, moveLog, createLog>>

\* lines 72-78 and 439-440, answer yes: the while loop of line 414 goes round,
\* and every name of the iteration is assigned afresh.
ContinueSorting ==
  /\ pc = "continue_prompt"
  /\ \E inp \in YesNoInputs : inp = "" \/ Lower(inp) = "y"
  /\ runs < MaxRuns
  /\ runs' = runs + 1
  /\ playlist' = None
  /\ args' = NoArgs
  /\ method' = NoInput /\ sorting_method' = NoInput /\ ret' = <<>>
  /\ orig' = <<>> /\ items' = <<>> /\ pass1' = <<>> /\ pass2' = <<>>
  /\ previous_item' = None /\ idx' = 0 /\ moveLog' = <<>> /\ createLog' = <<>>
  /\ printed' = FALSE /\ returned' = None
  /\ pc' = "choose_playlist"
  /\ UNCHANGED <<playlists, caller, error>>

\* lines 72-78 and 439-440, answer no: sys.exit(). Any other input prompts again.
StopSorting ==
  /\ pc = "continue_prompt"
  /\ \E inp \in YesNoInputs :
       IF Lower(inp) = "n" THEN pc' = "exit"
       ELSE inp # "" /\ Lower(inp) # "y" /\ pc' = pc
  /\ UNCHANGED <<playlists, caller, runs, playlist, args, error, prompt, call>>

Next ==
  \/ ChoosePlaylist
  \/ KeyPrompt
  \/ DirPrompt
  \/ Unpack
  \/ UnpackFails
  \/ ChooseDuplication
  \/ DirectCall
  \/ ShuffleItems
  \/ SortItems
  \/ SortFails
  \/ Create
  \/ CreateFails
  \/ MoveItemStep
  \/ MoveItemFails
  \/ FinishMoves
  \/ ContinueSorting
  \/ StopSorting

Spec == Init /\ [][Next]_vars

\* ------------------------------------------------------------- properties
\* sort_playlist has returned (its locals are those of the call that returned).
Returned == pc \in {"done", "continue_prompt", "exit"}

\* sort_playlist has got past its sorting step.
Ordered == orig # <<>> /\ (pc = "apply" \/ Returned \/ (pc = "crashed" /\ error = "PlexApiException"))

\* The items as fetched, and the playlist as it stands on the server now.
fetched == orig[playlist].items

onServer == playlists[playlist].items

Count(seq, x) == Cardinality({i \in 1..Len(seq) : seq[i] = x})

IsPermutationOf(a, b) ==
  /\ Len(a) = Len(b)
  /\ \A x \in Range(a) \cup Range(b) : Count(a, x) = Count(b, x)

NonDecreasing(seq, key, backup) ==
  \A i \in 1..(Len(seq) - 1) : Value(seq[i], key, backup) <= Value(seq[i + 1], key, backup)

NonIncreasing(seq, key, backup) ==
  \A i \in 1..(Len(seq) - 1) : Value(seq[i], key, backup) >= Value(seq[i + 1], key, backup)

Before(seq, x, y) == PositionOf(seq, x) < PositionOf(seq, y)

\* The server's playlist after the first n commands of a move log.
RECURSIVE ApplyMoves(_, _, _)
ApplyMoves(seq, log, n) ==
  IF n = 0 THEN seq
  ELSE MoveItem(ApplyMoves(seq, log, n - 1), log[n].item, log[n].after)

\* C1: an ascending in-place sort by a key that no entry lacks leaves the
\* playlist non-decreasing in the key's value; entries [B, A, C] sorted by
\* title give move(A, None), move(B, A), move(C, B) and the order [A, B, C].
\* Stated for the playlists that the primary pass alone orders (video, photo):
\* on an audio playlist the secondary pass is meant to regroup the entries.
C1_AscendingSortOrdersPlaylist ==
  (/\ Returned
   /\ args.sort_key # "shuffle" /\ ~args.sort_reverse /\ ~args.duplicate
   /\ orig[playlist].playlistType # "audio"
   /\ \A i \in 1..Len(fetched) : Getattr(fetched[i], args.sort_key) # Null)
  => /\ NonDecreasing(onServer, args.sort_key, args.backup_sort_key)
     /\ (fetched = <<1, 2, 3>> /\ args.sort_key = "title")
          => /\ moveLog = <<[item |-> 2, after |-> None], [item |-> 1, after |-> 2],
                            [item |-> 3, after |-> 1]>>
             /\ onServer = <<2, 1, 3>>

\* C2: what sort_playlist hands to the move loop or to the create command is
\* a permutation of the entries fetched, and after an in-place call the
\* playlist holds the same entries as before, each once.
C2_ReorderingIsPermutation ==
  /\ Ordered => IsPermutationOf(items, fetched)
  /\ Ordered => \A i \in 1..Len(createLog) : IsPermutationOf(createLog[i].items, fetched)
  /\ (Returned /\ ~args.duplicate)
       => /\ IsPermutationOf(onServer, fetched)
          /\ Len(playlists) = Len(orig)

W2_ShuffledInPlace ==
  /\ Returned /\ ~args.duplicate /\ args.sort_key = "shuffle"
  /\ Len(fetched) = 3 /\ items # fetched /\ onServer # fetched

\* C3: an in-place call on N entries issues N moveItem commands and no
\* create command, in the order of the new ordering: the first with after
\* None, every later one with after the entry the command before it moved.
C3_MovesAnchoredToPredecessor ==
  (Returned /\ ~args.duplicate)
  => /\ Len(moveLog) = Len(fetched)
     /\ createLog = <<>>
     /\ \A i \in 1..Len(moveLog) :
          /\ moveLog[i].item = items[i]
          /\ moveLog[i].after = IF i = 1 THEN None ELSE moveLog[i - 1].item

W3_ThreeMoves == Returned /\ ~args.duplicate /\ Len(moveLog) = 3 /\ caller = "main"

\* C4: a duplicating call issues one create command and no moveItem command,
\* leaves every playlist the server held as it was, and returns the new
\* playlist, not the source.
C4_DuplicateLeavesSourceUntouched ==
  (Returned /\ args.duplicate)
  => /\ Len(createLog) = 1
     /\ moveLog = <<>>
     /\ Len(playlists) = Len(orig) + 1
     /\ SubSeq(playlists, 1, Len(orig)) = orig
     /\ returned = Len(playlists) /\ returned # playlist

W4_CopyCreated ==
  /\ Returned /\ args.duplicate /\ Len(fetched) = 3
  /\ args.sort_key = "shuffle" /\ items # fetched

\* C5: a duplicating descending sort creates "Copy of <title>" with the
\* source's summary and type and the entries non-increasing in the key; for
\* [B, A, C] by title the copy holds [C, B, A], the source still [B, A, C].
\* Stated for the playlists that the primary pass alone orders (video, photo).
C5_DescendingCopyIsSorted ==
  (/\ Returned /\ args.duplicate /\ args.sort_key # "shuffle" /\ args.sort_reverse
   /\ orig[playlist].playlistType # "audio")
  => /\ Len(createLog) = 1
     /\ createLog[1].title = "Copy of " \o orig[playlist].title
     /\ createLog[1].summary = orig[playlist].summary
     /\ createLog[1].playlistType = orig[playlist].playlistType
     /\ NonIncreasing(createLog[1].items, args.sort_key, args.backup_sort_key)
     /\ onServer = fetched
     /\ (fetched = <<1, 2, 3>> /\ args.sort_key = "title")
          => playlists[returned].items = <<3, 1, 2>>

\* C6: for an audio playlist the secondary pass is a stable sort of the
\* primary-sorted sequence, in the same direction, and two entries with equal
\* primary values stand in the result as they stand after the primary sort.
C6_SecondaryPassKeepsPrimaryOrder ==
  (Ordered /\ args.sort_key # "shuffle" /\ orig[playlist].playlistType = "audio")
  => /\ pass2 = Sorted(pass1, args.secondary_sort_key, args.backup_secondary_sort_key,
                       args.sort_reverse)
     /\ \A x, y \in Range(fetched) :
          (x # y /\ Value(x, args.sort_key, args.backup_sort_key)
                      = Value(y, args.sort_key, args.backup_sort_key))
          => (Before(items, x, y) <=> Before(pass1, x, y))

\* C7: a run in which "Shuffle randomly" was selected goes on to the
\* duplication prompt and to sort_playlist, and does not end in an error.
C7_ShuffleRunCarriesThrough ==
  (caller = "main" /\ ret # <<>> /\ ret[1] = "shuffle")
  => pc # "crashed" /\ error = "none"

\* C8: choose_sorting_method leaves each prompt loop only on an input that
\* spells an index of the menu, 0..len-1, and returns the key and the
\* direction of the entries at those indices.
C8_OnlyInRangeInputsSelect ==
  /\ (pc = "dir_prompt" \/ (pc = "unpack" /\ method # NoInput))
       => /\ IsInt(method)
          /\ 0 <= int(method) /\ int(method) < Len(menu)
          /\ ret # <<>> => ret[1] = menu[int(method) + 1].key
  /\ (pc = "unpack" /\ sorting_method # NoInput)
       => /\ IsInt(sorting_method)
          /\ 0 <= int(sorting_method) /\ int(sorting_method) < Len(sorting_choices)
          /\ ret[5] = sorting_choices[int(sorting_method) + 1].reverse

\* C9: when the N moves of an in-place call have been applied, the playlist
\* on the server is in exactly the order of the list the loop walked.
C9_MovesRealiseTargetOrder ==
  (Returned /\ ~args.duplicate) => onServer = items

W9_ReversedInPlace ==
  /\ Returned /\ ~args.duplicate
  /\ fetched = <<1, 2, 3>> /\ items = <<3, 2, 1>> /\ onServer = <<3, 2, 1>>

\* C10: when the k-th moveItem fails, the run ends there: k commands were
\* issued and no more, nothing is printed or returned, the first k-1 moves
\* stay applied, and the playlist is a permutation of what it was.
C10_FailedMoveAbortsRun ==
  (error = "PlexApiException" /\ ~args.duplicate)
  => /\ pc = "crashed"
     /\ Len(moveLog) = idx + 1 /\ Len(moveLog) <= Len(items)
     /\ ~printed /\ returned = None
     /\ onServer = ApplyMoves(fetched, moveLog, Len(moveLog) - 1)
     /\ IsPermutationOf(onServer, fetched)
     /\ ~ENABLED Next

W10_FailedAfterOneMove ==
  /\ pc = "crashed" /\ error = "PlexApiException" /\ ~args.duplicate
  /\ Len(items) = 3 /\ Len(moveLog) = 2 /\ onServer # fetched

====
